---- MODULE Spec2Model ----
(***************************************************************************)
(* Model of the evo assistant's orchestration core:                        *)
(*   - src/main.py: main() (startup, chat loop, cleanup) and               *)
(*     process_user_input() (streaming event pipeline, memory hand-off);   *)
(*   - src/config/session_manager.py: SessionManager;                      *)
(*   - src/config/settings.py: validate_environment.                       *)
(* Text is a sequence of one-character strings, so that strip(), lower()   *)
(* and "".join() are computed and not assumed.                             *)
(***************************************************************************)
EXTENDS Integers, Sequences, FiniteSets, TLC

\* ------------------------------------------------------------------ bounds
MaxTurns == 2
MaxEvents == 3
MaxOps == 6

\* -------------------------------------------------------------------- text
Whitespace == {" "}

RECURSIVE LStrip(_)
LStrip(s) ==
    IF s = << >> THEN << >>
    ELSE IF Head(s) \in Whitespace THEN LStrip(Tail(s)) ELSE s

RECURSIVE RStrip(_)
RStrip(s) ==
    IF s = << >> THEN << >>
    ELSE IF s[Len(s)] \in Whitespace THEN RStrip(SubSeq(s, 1, Len(s) - 1)) ELSE s

\* str.strip()
Strip(s) == RStrip(LStrip(s))

LowerChar(c) ==
    CASE c = "Q" -> "q"
      [] c = "B" -> "b"
      [] c = "Y" -> "y"
      [] c = "E" -> "e"
      [] OTHER -> c

\* str.lower()
Lower(s) == [i \in 1..Len(s) |-> LowerChar(s[i])]

\* "".join(parts)
RECURSIVE Join(_)
Join(parts) ==
    IF parts = << >> THEN << >> ELSE Head(parts) \o Join(Tail(parts))

\* truth value of a str
Truthy(s) == s # << >>

\* ------------------------------------------------------------- environment
RequiredVars == <<"OPENAI_API_KEY", "DATABASE_URL">>

\* os.getenv(var): absent (None), "" or a value
EnvValues ==
    { [present |-> FALSE, value |-> << >>],
      [present |-> TRUE,  value |-> << >>],
      [present |-> TRUE,  value |-> <<"v">>] }

Getenv(e, var) == e[var]

\* the test of line 32 as `os.getenv(var) is None`
EnvFalsy_NoneOnly(v) == ~v.present

\* not os.getenv(var)
EnvFalsy(v) == ~v.present \/ ~Truthy(v.value)

RECURSIVE MissingFrom(_, _)
MissingFrom(e, vars) ==
    IF vars = << >> THEN << >>
    ELSE IF EnvFalsy(Getenv(e, Head(vars)))
         THEN <<Head(vars)>> \o MissingFrom(e, Tail(vars))
         ELSE MissingFrom(e, Tail(vars))

\* validate_environment() -> (is_valid, missing_vars)
validate_environment(e) ==
    LET missing_vars == MissingFrom(e, RequiredVars)
    IN  [is_valid |-> Len(missing_vars) = 0, missing_vars |-> missing_vars]

\* ------------------------------------------------------------------ events
ReasoningType == "response.reasoning_summary_text.delta"
AnswerClass == "ResponseTextDeltaEvent"

RawEvent(dtype, cls, hasDelta, delta) ==
    [type |-> "raw_response_event", hasData |-> TRUE, dtype |-> dtype,
     cls |-> cls, hasDelta |-> hasDelta, delta |-> delta]

\* the stream events one invocation may deliver
StreamEvents ==
    { RawEvent(ReasoningType, "ResponseReasoningSummaryTextDeltaEvent", TRUE, <<"a">>),
      RawEvent(ReasoningType, "ResponseReasoningSummaryTextDeltaEvent", FALSE, << >>),
      RawEvent("response.output_text.delta", AnswerClass, TRUE, <<"x">>),
      RawEvent("response.output_text.delta", AnswerClass, TRUE, <<" ">>),
      RawEvent("response.output_text.delta", AnswerClass, TRUE, << >>),
      RawEvent("response.created", "ResponseCreatedEvent", FALSE, << >>),
      [type |-> "raw_response_event", hasData |-> FALSE, dtype |-> "",
       cls |-> "", hasDelta |-> FALSE, delta |-> << >>],
      [type |-> "run_item_stream_event", hasData |-> FALSE, dtype |-> "",
       cls |-> "", hasDelta |-> FALSE, delta |-> << >>] }

IsRawWithData(e) == e.type = "raw_response_event" /\ e.hasData

\* the event takes the branch of main.py line 62
IsReasoningDelta(e) == IsRawWithData(e) /\ e.dtype = ReasoningType

\* the event takes the branch of main.py line 73
IsAnswerDelta(e) == IsRawWithData(e) /\ e.dtype # ReasoningType /\ e.cls = AnswerClass

\* hasattr(event.data, 'delta') and event.data.delta
HasPayload(e) == e.hasDelta /\ Truthy(e.delta)

\* ------------------------------------------------------------------ output
Item(kind, text, ev) == [kind |-> kind, text |-> text, ev |-> ev]

ReasoningOpen(k)  == Item("reasoning_open", << >>, k)
ReasoningClose(k) == Item("reasoning_close", << >>, k)
ResponseOpen(k)   == Item("response_open", << >>, k)
ReasoningText(t, k) == Item("reasoning_text", t, k)
ResponseText(t, k)  == Item("response_text", t, k)
Banner        == Item("banner", << >>, 0)
Separator     == Item("separator", << >>, 0)
ErrorItem     == Item("error", << >>, 0)

\* ---------------------------------------------------- streaming pipeline
\* the locals of process_user_input at entry
PipelineInit ==
    [reasoning_started |-> FALSE, response_started |-> FALSE,
     agent_response_text |-> << >>, out |-> <<Banner>>]

\* OnReasoningDelta without line 66: the flag is never set
OnReasoningDelta_FlagNotSet(st, e, k) ==
    LET opened == IF ~st.reasoning_started
                  THEN [st EXCEPT !.out = Append(@, ReasoningOpen(k))]
                  ELSE st
    IN  IF HasPayload(e)
        THEN [opened EXCEPT !.out = Append(@, ReasoningText(e.delta, k))]
        ELSE opened

\* OnReasoningDelta printing reasoning text only until the response has started
OnReasoningDelta_MutedAfterResponse(st, e, k) ==
    LET opened == IF ~st.reasoning_started
                  THEN [st EXCEPT !.out = Append(@, ReasoningOpen(k)),
                                  !.reasoning_started = TRUE]
                  ELSE st
    IN  IF HasPayload(e) /\ ~st.response_started
        THEN [opened EXCEPT !.out = Append(@, ReasoningText(e.delta, k))]
        ELSE opened

\* body of the reasoning branch, main.py 63-70
OnReasoningDelta(st, e, k) ==
    LET opened == IF ~st.reasoning_started
                  THEN [st EXCEPT !.out = Append(@, ReasoningOpen(k)),
                                  !.reasoning_started = TRUE]
                  ELSE st
    IN  IF HasPayload(e)
        THEN [opened EXCEPT !.out = Append(@, ReasoningText(e.delta, k))]
        ELSE opened

\* CloseReasoning without the test of line 75
CloseReasoning_Unconditional(st, k) ==
    [st EXCEPT !.out = Append(@, ReasoningClose(k))]

\* the close marker of main.py 75-76
CloseReasoning(st, k) ==
    IF st.reasoning_started
    THEN [st EXCEPT !.out = Append(@, ReasoningClose(k))]
    ELSE st

\* OnAnswerDelta collecting the chunks in reverse order
OnAnswerDelta_Prepend(st, e, k) ==
    LET opened == IF ~st.response_started
                  THEN [CloseReasoning(st, k) EXCEPT
                            !.out = Append(@, ResponseOpen(k)),
                            !.response_started = TRUE]
                  ELSE st
    IN  IF HasPayload(e)
        THEN [opened EXCEPT !.out = Append(@, ResponseText(e.delta, k)),
                            !.agent_response_text = <<e.delta>> \o @]
        ELSE opened

\* OnAnswerDelta clearing the reasoning flag when it closes the reasoning channel
OnAnswerDelta_ResetsReasoning(st, e, k) ==
    LET opened == IF ~st.response_started
                  THEN [CloseReasoning(st, k) EXCEPT
                            !.out = Append(@, ResponseOpen(k)),
                            !.response_started = TRUE,
                            !.reasoning_started = FALSE]
                  ELSE st
    IN  IF HasPayload(e)
        THEN [opened EXCEPT !.out = Append(@, ResponseText(e.delta, k)),
                            !.agent_response_text = Append(@, e.delta)]
        ELSE opened

\* OnAnswerDelta with the close marker outside the test of line 74
OnAnswerDelta_ClosesOnEveryDelta(st, e, k) ==
    LET closed == CloseReasoning(st, k)
        opened == IF ~st.response_started
                  THEN [closed EXCEPT
                            !.out = Append(@, ResponseOpen(k)),
                            !.response_started = TRUE]
                  ELSE closed
    IN  IF HasPayload(e)
        THEN [opened EXCEPT !.out = Append(@, ResponseText(e.delta, k)),
                            !.agent_response_text = Append(@, e.delta)]
        ELSE opened

\* OnAnswerDelta opening the channel only for an event that has a payload
OnAnswerDelta_OpensOnPayloadOnly(st, e, k) ==
    LET opened == IF ~st.response_started /\ HasPayload(e)
                  THEN [CloseReasoning(st, k) EXCEPT
                            !.out = Append(@, ResponseOpen(k)),
                            !.response_started = TRUE]
                  ELSE st
    IN  IF HasPayload(e)
        THEN [opened EXCEPT !.out = Append(@, ResponseText(e.delta, k)),
                            !.agent_response_text = Append(@, e.delta)]
        ELSE opened

\* body of the answer branch, main.py 74-86
OnAnswerDelta(st, e, k) ==
    LET opened == IF ~st.response_started
                  THEN [CloseReasoning(st, k) EXCEPT
                            !.out = Append(@, ResponseOpen(k)),
                            !.response_started = TRUE]
                  ELSE st
    IN  IF HasPayload(e)
        THEN [opened EXCEPT !.out = Append(@, ResponseText(e.delta, k)),
                            !.agent_response_text = Append(@, e.delta)]
        ELSE opened

\* ProcessEvent with `else` in place of the `elif` of line 73
ProcessEvent_ElseIsAnswer(st, e, k) ==
    IF IsRawWithData(e)
    THEN IF e.dtype = ReasoningType THEN OnReasoningDelta(st, e, k)
         ELSE OnAnswerDelta(st, e, k)
    ELSE st

\* one iteration of the async for loop, main.py 58-86
ProcessEvent(st, e, k) ==
    IF IsRawWithData(e)
    THEN IF e.dtype = ReasoningType THEN OnReasoningDelta(st, e, k)
         ELSE IF e.cls = AnswerClass THEN OnAnswerDelta(st, e, k)
         ELSE st
    ELSE st

\* ---------------------------------------------------------- session manager
NoEngine == 0
NoSessionId == "None"

\* SessionManager.__init__
SessionManagerInit ==
    [exists |-> TRUE, _engine |-> NoEngine, _current_session_id |-> NoSessionId]

NoSessionManager ==
    [exists |-> FALSE, _engine |-> NoEngine, _current_session_id |-> NoSessionId]

\* SessionManager.engine (property): the manager and the engines after the access
EngineAccess(m, engs) ==
    IF m._engine = NoEngine
    THEN [sm |-> [m EXCEPT !._engine = Len(engs) + 1], engines |-> Append(engs, 0)]
    ELSE [sm |-> m, engines |-> engs]

\* cleanup without line 116: the disposed engine is kept
Cleanup_KeepsEngine(m, engs) ==
    IF m._engine # NoEngine
    THEN [sm |-> m, engines |-> [engs EXCEPT ![m._engine] = @ + 1]]
    ELSE [sm |-> m, engines |-> engs]

\* SessionManager.cleanup
Cleanup(m, engs) ==
    IF m._engine # NoEngine
    THEN [sm |-> [m EXCEPT !._engine = NoEngine],
          engines |-> [engs EXCEPT ![m._engine] = @ + 1]]
    ELSE [sm |-> m, engines |-> engs]

CreateSessionState_IgnoresId(m, engs, sid) ==
    EngineAccess([m EXCEPT !._current_session_id = "session_1"], engs)

\* SessionManager.create_session up to the engine access
CreateSessionState(m, engs, sid) ==
    EngineAccess([m EXCEPT !._current_session_id = sid], engs)

\* ------------------------------------------------------------------- inputs
ExitCommands ==
    { <<"e","x","i","t">>, <<"q","u","i","t">>, <<"b","y","e">>, <<"q">> }

\* generate_session_id(): values uuid4 may produce
GeneratedSessionIds == {"session_1"}

\* session ids a caller may pass to create_session
GivenSessionIds == {"s_a", "s_b"}

\* lines the user may type at the prompt
RawInputs ==
    { << >>, <<" ">>, <<" ","h","i">>,
      <<"Q">>, <<"B","y","e"," ">> }

\* ------------------------------------------------------------ memory subsystem
\* the main process and a background worker process; the module globals of
\* memory.py exist once in each
Procs == {"main", "worker"}

NoClient == 0

CollectionName == "memory"

Range(f) == {f[i] : i \in DOMAIN f}

\* texts saved and queried
Texts == {"cat", "kitten"}

\* limit arguments of recall_memory; 5 is the default
Limits == {1, 5}

\* Embedding provider: unit vectors, here scaled to length 5
Embed(t) ==
    IF t = "cat" THEN <<5, 0>> ELSE <<4, 3>>

\* cosine similarity of two such vectors, times 25
Cosine(a, b) == a[1] * b[1] + a[2] * b[2]

\* f"{score:.3f}": the score in thousandths, rounded
Fmt3(score) == (score * 2000 + 25) \div 50

\* external calls that may fail during one call of the memory subsystem
ExternalOps ==
    {"get_collections", "create_collection", "OpenAI", "embeddings", "upsert", "search"}

\* what fails during one call: nothing, one external call, or the whole
\* vector store
FailureModes ==
    {{}} \cup {{x} : x \in ExternalOps}
         \cup {{"get_collections", "create_collection", "upsert", "search"}}

\* the failures that a call making the external calls `used` can meet
FailuresOf(used) == {f \cap used : f \in FailureModes}

SaveCalls == ExternalOps \ {"search"}
RecallCalls == ExternalOps \ {"upsert"}
EnsureCalls == {"get_collections", "create_collection"}

\* the record of a call: who called what after which call, what failed, whether
\* a warning was printed, what was returned, the ids the store returned to a
\* search, and which client handles were used
Call(op, p, text, limit, fail, warned, result, returned, oc, qc) ==
    [op |-> op, prev |-> "none", proc |-> p, text |-> text, limit |-> limit, fail |-> fail,
     warned |-> warned, result |-> result, returned |-> returned,
     openai |-> oc, qdrant |-> qc]

NoHits == << >>

Result(head, id, hits) == [head |-> head, id |-> id, hits |-> hits]

NoCall ==
    Call("none", "main", "", 0, {}, FALSE, Result("", 0, NoHits), << >>,
         NoClient, NoClient)

\* memory.py 20-22 in every process, and an empty vector store
MemInit ==
    [_openai_client |-> [p \in Procs |-> NoClient],
     _qdrant_client |-> [p \in Procs |-> NoClient],
     constructed |-> << >>,
     collections |-> << >>,
     points |-> << >>,
     uuids |-> 0,
     calls |-> 0,
     last |-> NoCall]

\* a client object is constructed; its handle is its place in `constructed`
Construct(m, p, kind) == Append(m.constructed, [proc |-> p, kind |-> kind])

\* _get_openai_client; OpenAI(...) raises when it finds no API key
GetOpenAIClient(m, p, fail) ==
    IF m._openai_client[p] = NoClient
    THEN IF "OpenAI" \in fail
         THEN [m |-> m, client |-> NoClient, raised |-> TRUE]
         ELSE [m |-> [m EXCEPT !._openai_client[p] = Len(m.constructed) + 1,
                               !.constructed = Construct(m, p, "openai")],
               client |-> Len(m.constructed) + 1, raised |-> FALSE]
    ELSE [m |-> m, client |-> m._openai_client[p], raised |-> FALSE]

GetQdrantClient_NoCache(m, p) ==
    [m |-> [m EXCEPT !._qdrant_client[p] = Len(m.constructed) + 1,
                     !.constructed = Construct(m, p, "qdrant")],
     client |-> Len(m.constructed) + 1]

\* _get_qdrant_client
GetQdrantClient(m, p) ==
    IF m._qdrant_client[p] = NoClient
    THEN [m |-> [m EXCEPT !._qdrant_client[p] = Len(m.constructed) + 1,
                          !.constructed = Construct(m, p, "qdrant")],
          client |-> Len(m.constructed) + 1]
    ELSE [m |-> m, client |-> m._qdrant_client[p]]

\* Vector store: create_collection refuses a name that exists
CreateCollection(cols, name, fail) ==
    IF "create_collection" \in fail \/ name \in Range(cols)
    THEN [ok |-> FALSE, collections |-> cols]
    ELSE [ok |-> TRUE, collections |-> Append(cols, name)]

EnsureCollectionExists_NoCheck(m, p, fail) ==
    LET g == GetQdrantClient(m, p)
        c == CreateCollection(g.m.collections, CollectionName, fail)
    IN  IF "get_collections" \in fail
        THEN [m |-> g.m, warned |-> TRUE]
        ELSE [m |-> [g.m EXCEPT !.collections = c.collections], warned |-> ~c.ok]

\* _ensure_collection_exists: every exception is caught and printed as a warning
EnsureCollectionExists(m, p, fail) ==
    LET g == GetQdrantClient(m, p)
    IN  IF "get_collections" \in fail
        THEN [m |-> g.m, warned |-> TRUE]
        ELSE IF CollectionName \notin Range(g.m.collections)
        THEN LET c == CreateCollection(g.m.collections, CollectionName, fail)
             IN  [m |-> [g.m EXCEPT !.collections = c.collections],
                  warned |-> ~c.ok]
        ELSE [m |-> g.m, warned |-> FALSE]

GenerateEmbedding_Swallows(m, p, text, fail) ==
    LET g == GetOpenAIClient(m, p, fail)
    IN  IF g.raised \/ "embeddings" \in fail
        THEN [m |-> g.m, raised |-> FALSE, vector |-> <<0, 0>>, client |-> g.client]
        ELSE [m |-> g.m, raised |-> FALSE, vector |-> Embed(text), client |-> g.client]

\* _generate_embedding: any failure is raised again as an Exception
GenerateEmbedding(m, p, text, fail) ==
    LET g == GetOpenAIClient(m, p, fail)
    IN  IF g.raised \/ "embeddings" \in fail
        THEN [m |-> g.m, raised |-> TRUE, vector |-> << >>, client |-> g.client]
        ELSE [m |-> g.m, raised |-> FALSE, vector |-> Embed(text), client |-> g.client]

NewUuid_Fixed(m) == 1

\* uuid.uuid4() / uuid.uuid1(): a value no earlier call produced
NewUuid(m) == m.uuids + 1

\* Vector store: upsert replaces the point of the same id or adds the point
RECURSIVE Upsert(_, _)
Upsert(pts, pt) ==
    IF pts = << >> THEN <<pt>>
    ELSE IF Head(pts).id = pt.id THEN <<pt>> \o Tail(pts)
         ELSE <<Head(pts)>> \o Upsert(Tail(pts), pt)

\* the return values of memory.py 112, 115, 145, 159, 162
Saved(id) == Result("Memory saved successfully with ID: ", id, NoHits)
SaveFailed == Result("Failed to save memory: ", 0, NoHits)
NoResults == Result("No relevant memories found.", 0, NoHits)
Found(hits) == Result("Relevant memories:", 0, hits)
RecallFailed_AsEmpty == NoResults
RecallFailed == Result("Failed to recall memory: ", 0, NoHits)

\* save_memory after _ensure_collection_exists has returned e, memory.py 89-115
SaveBody(e, p, content, fail) ==
    LET memory_id == NewUuid(e.m)
        m1 == [e.m EXCEPT !.uuids = @ + 1]
        v == GenerateEmbedding(m1, p, content, fail)
        ts == NewUuid(v.m)
        m2 == [v.m EXCEPT !.uuids = @ + 1]
        point == [id |-> memory_id, vector |-> v.vector, content |-> content,
                  timestamp |-> ts]
        q == GetQdrantClient(m2, p)
        upsertFails == "upsert" \in fail \/ CollectionName \notin Range(q.m.collections)
    IN  IF v.raised
        THEN [m |-> v.m,
              call |-> Call("save", p, content, 0, fail, e.warned,
                            SaveFailed, << >>, v.client, e.m._qdrant_client[p])]
        ELSE IF upsertFails
        THEN [m |-> q.m,
              call |-> Call("save", p, content, 0, fail, e.warned,
                            SaveFailed, << >>, v.client, q.client)]
        ELSE [m |-> [q.m EXCEPT !.points = Upsert(@, point)],
              call |-> Call("save", p, content, 0, fail, e.warned,
                            Saved(memory_id), << >>, v.client, q.client)]

\* save_memory, memory.py 86-115
save_memory(m, p, content, fail) ==
    SaveBody(EnsureCollectionExists(m, p, fail), p, content, fail)

\* Vector store: search may return any `limit` nearest points in any order that
\* is non-increasing in score (the order of points of equal score is not
\* specified); a ranking lists places in `points`
SearchRankings(pts, qv, limit) ==
    LET n == IF limit < Len(pts) THEN limit ELSE Len(pts)
        Sc(k) == Cosine(qv, pts[k].vector)
    IN  { r \in [1..n -> DOMAIN pts] :
            /\ \A i, j \in 1..n : i # j => r[i] # r[j]
            /\ \A i, j \in 1..n : i < j => Sc(r[i]) >= Sc(r[j])
            /\ \A k \in DOMAIN pts : k \notin Range(r) => \A i \in 1..n : Sc(k) <= Sc(r[i]) }

\* the ScoredPoint list the client returns for a ranking
SearchResults(pts, qv, ranking) ==
    [i \in DOMAIN ranking |->
        [id |-> pts[ranking[i]].id, score |-> Cosine(qv, pts[ranking[i]].vector),
         content |-> pts[ranking[i]].content]]

FormatResults_SkipsFirst(search_results) ==
    [i \in 1..(Len(search_results) - 1) |->
        [rank |-> i, id |-> search_results[i + 1].id,
         score |-> Fmt3(search_results[i + 1].score),
         content |-> search_results[i + 1].content]]

FormatResults_Reversed(search_results) ==
    [i \in DOMAIN search_results |->
        [rank |-> i, id |-> search_results[Len(search_results) + 1 - i].id,
         score |-> Fmt3(search_results[Len(search_results) + 1 - i].score),
         content |-> search_results[Len(search_results) + 1 - i].content]]

\* memory.py 148-157: one numbered entry per search result
FormatResults(search_results) ==
    [i \in DOMAIN search_results |->
        [rank |-> i, id |-> search_results[i].id,
         score |-> Fmt3(search_results[i].score),
         content |-> search_results[i].content]]

\* recall_memory after _ensure_collection_exists has returned e, memory.py 133-162
RecallBody(e, p, query, limit, fail, ranking) ==
    LET v == GenerateEmbedding(e.m, p, query, fail)
        q == GetQdrantClient(v.m, p)
        searchFails == "search" \in fail \/ CollectionName \notin Range(q.m.collections)
        search_results == SearchResults(q.m.points, v.vector, ranking)
    IN  IF v.raised
        THEN [m |-> v.m,
              call |-> Call("recall", p, query, limit, fail, e.warned,
                            RecallFailed, << >>, v.client, e.m._qdrant_client[p])]
        ELSE IF searchFails
        THEN [m |-> q.m,
              call |-> Call("recall", p, query, limit, fail, e.warned,
                            RecallFailed, << >>, v.client, q.client)]
        ELSE IF search_results = << >>
        THEN [m |-> q.m,
              call |-> Call("recall", p, query, limit, fail, e.warned,
                            NoResults, << >>, v.client, q.client)]
        ELSE [m |-> q.m,
              call |-> Call("recall", p, query, limit, fail, e.warned,
                            Found(FormatResults(search_results)),
                            [i \in DOMAIN search_results |-> search_results[i].id], v.client, q.client)]

\* recall_memory, memory.py 130-162
recall_memory(m, p, query, limit, fail, ranking) ==
    RecallBody(EnsureCollectionExists(m, p, fail), p, query, limit, fail, ranking)

\* ---------------------------------------------------------------- session store
\* The database behind DATABASE_URL keeps, for every session id, the ordered
\* list of the items added under it; a SQLAlchemySession object holds a session
\* id and an engine.
AllSessionIds == GivenSessionIds \cup GeneratedSessionIds

NoStoreCall == [op |-> "none", requested |-> NoSessionId, session_id |-> NoSessionId,
                read |-> << >>, added |-> << >>]

\* no SQLAlchemySession object yet, no item stored
StoreInit ==
    [sessions |-> {}, history |-> [id \in AllSessionIds |-> << >>], last |-> NoStoreCall]

\* SQLAlchemySession(session_id=..., engine=...), session_manager.py 91-95
NewSession(session_id, engine) == [session_id |-> session_id, engine |-> engine]

\* session.get_items(): everything stored under the session id of the object
GetItems(st, session) == st.history[session.session_id]

\* session.add_items(items): the items are stored after those already there
AddItems(st, session, items) ==
    [st EXCEPT !.history[session.session_id] = @ \o items]

\* what a run with session=... adds to the session: nothing when it fails
\* before saving, the input alone, or the input and the answer
RunItems(text, n, saved) ==
    CASE saved = "none" -> << >>
      [] saved = "input" -> <<[role |-> "user", content |-> text, at |-> n]>>
      [] OTHER -> <<[role |-> "user", content |-> text, at |-> n],
                    [role |-> "assistant", content |-> text, at |-> n]>>

\* ------------------------------------------------------------ agent tools
UpperChar(c) ==
    CASE c = "s" -> "S"
      [] c = "e" -> "E"
      [] c = "l" -> "L"
      [] c = "c" -> "C"
      [] c = "t" -> "T"
      [] OTHER -> c

\* str.upper()
Upper(s) == [i \in 1..Len(s) |-> UpperChar(s[i])]

\* str.startswith(prefix)
StartsWith(s, prefix) ==
    Len(prefix) <= Len(s) /\ \A i \in 1..Len(prefix) : s[i] = prefix[i]

\* the prefixes of sql_tool.py line 57
ReadPrefixes ==
    { <<"S","E","L","E","C","T">>, <<"S","H","O","W">>,
      <<"D","E","S","C","R","I","B","E">>, <<"E","X","P","L","A","I","N">> }

\* query.strip().upper().startswith((...))
ReturnsData(query) == \E prefix \in ReadPrefixes : StartsWith(Upper(Strip(query)), prefix)

\* queries the agent may pass
Queries ==
    { <<" ","s","e","l","e","c","t"," ","1">>, <<"S","H","O","W">>,
      <<"D","E","L","E","T","E">>, << >> }

\* rows a query may return: none, one, more than the 20 that are listed
RowCounts == {0, 1, 21}

RowLimit == 20

\* what may go wrong during one SQL call
SqlFaults == {{}, {"connect"}, {"query"}, {"close"}, {"query", "close"}}

\* the result of a tool call: a text, given by its parts, or an exception
\* raised to the caller
Text(parts) == [raised |-> FALSE, text |-> parts]
Raised(exc) == [raised |-> TRUE, text |-> <<exc>>]

NoUrlError == Text(<<"Error: DATABASE_URL environment variable is not set.">>)
SqlError == Text(<<"SQL Error: ">>)
NoData == Text(<<"Query executed successfully, but returned no data.">>)
Executed == Text(<<"Query executed successfully. Result: ">>)

\* sql_tool.py 62-75: the column line, at most 20 rows, and the count of the rest
Formatted(rows) ==
    Text(<<"Columns: ">>
         \o [i \in 1..(IF rows < RowLimit THEN rows ELSE RowLimit) |-> "Row"]
         \o (IF rows > RowLimit THEN <<"... and more rows">> ELSE << >>))

\* sql_tool.py 55-83: what the inner try block returns or raises
QueryOutcome(query, fault, rows) ==
    IF "query" \in fault THEN Raised("PostgresError")
    ELSE IF ReturnsData(query)
         THEN IF rows > 0 THEN Formatted(rows) ELSE NoData
         ELSE Executed

\* conn.close(): the connection is closed, or aborted when closing fails
Close(conns, i, fault) ==
    [conns EXCEPT ![i] = IF "close" \in fault THEN "aborted" ELSE "closed"]

\* execute_sql_query with the close after the query instead of in `finally`
execute_sql_query_NoFinally(t, e, query, fault, rows) ==
    IF EnvFalsy(Getenv(e, "DATABASE_URL"))
    THEN [conns |-> t.conns, result |-> NoUrlError]
    ELSE IF "connect" \in fault
    THEN [conns |-> t.conns, result |-> SqlError]
    ELSE LET opened == Append(t.conns, "open")
             conn == Len(opened)
             inner == QueryOutcome(query, fault, rows)
         IN  IF inner.raised
             THEN [conns |-> opened, result |-> SqlError]
             ELSE [conns |-> Close(opened, conn, fault),
                   result |-> IF "close" \in fault THEN SqlError ELSE inner]

\* execute_sql_query, sql_tool.py 43-89: the connections and the value returned
execute_sql_query(t, e, query, fault, rows) ==
    IF EnvFalsy(Getenv(e, "DATABASE_URL"))
    THEN [conns |-> t.conns, result |-> NoUrlError]
    ELSE IF "connect" \in fault
    THEN [conns |-> t.conns, result |-> SqlError]
    ELSE LET opened == Append(t.conns, "open")
             conn == Len(opened)
             inner == QueryOutcome(query, fault, rows)
         IN  [conns |-> Close(opened, conn, fault),
              result |-> IF inner.raised \/ "close" \in fault THEN SqlError ELSE inner]

\* what subprocess.run may do: complete with output and a return code, or raise
ShellOutcomes ==
    { [kind |-> "completed", stdout |-> so, stderr |-> se, returncode |-> rc] :
        so \in BOOLEAN, se \in BOOLEAN, rc \in {0, 1} }
    \cup { [kind |-> k, stdout |-> FALSE, stderr |-> FALSE, returncode |-> 0] :
             k \in {"TimeoutExpired", "OSError", "ValueError"} }

\* local_shell_executor.py 58-71: the text built from a completed process
ShellOutput(o) ==
    (IF o.stdout THEN <<"Output:">> ELSE << >>)
    \o (IF o.stderr THEN <<"Error/Warning messages:">> ELSE << >>)
    \o (IF o.returncode # 0
         THEN <<"Command exited with return code: ">>
         ELSE <<"Command executed successfully (return code: 0)">>)

\* the except clauses of local_shell_executor.py 73-78
ShellHandler(exc) ==
    CASE exc = "TimeoutExpired" -> Text(<<"Command timed out after 30 seconds: ">>)
      [] exc = "CalledProcessError" -> Text(<<"Command failed with return code ">>)
      [] OTHER -> Text(<<"System error executing command: ">>)

\* execute_shell_command, local_shell_executor.py 45-78
execute_shell_command(o) ==
    IF o.kind = "completed"
    THEN IF ShellOutput(o) # << >>
         THEN Text(ShellOutput(o))
         ELSE Text(<<"Command executed but produced no output.">>)
    ELSE ShellHandler(o.kind)

NoToolCall ==
    [tool |-> "none", query |-> << >>, fault |-> {}, rows |-> 0,
     outcome |-> [kind |-> "none"], result |-> Text(<< >>)]

\* no tool has been called, no database connection opened
ToolInit == [calls |-> 0, conns |-> << >>, last |-> NoToolCall]

\* ------------------------------------------- memory calls running side by side
\* no memory call is in progress in either process
RaceInit == [p \in Procs |-> [pc |-> "idle", warned |-> FALSE, escaped |-> FALSE]]

VARIABLES
    env,                  \* process environment
    pc,                   \* position of main()
    exitReason,           \* why main() left the chat loop
    turn,                 \* number of process_user_input invocations so far
    user_input,           \* argument of the current invocation
    events,               \* events consumed by the current invocation
    reasoning_started, response_started, agent_response_text,
    out,                  \* what the current invocation printed
    streamStatus,         \* none / running / completed / raised
    failure,              \* what raised into the except clause of line 96
    handoffs,             \* start_memory_processing calls of this invocation
    workers,              \* background worker processes, in spawn order
    sm,                   \* the SessionManager
    engines,              \* per created engine, the number of dispose() calls
    missing_reported,     \* settings reported as missing at startup
    ops,                  \* number of SessionManager calls (SMSpec, SessSpec)
    agent,                \* whether create_main_agent() has been called
    mem,                  \* the memory subsystem: clients, vector store, last call
    store,                \* the session store: handles and per-id turn histories
    tool,                 \* the SQL and shell tools: connections opened, last call
    savedUnder,           \* per stored record, the session id current when it was saved
    race                  \* per process, its position inside a memory call in progress

vars == <<env, agent, pc, exitReason, turn, user_input, events, reasoning_started,
          response_started, agent_response_text, out, streamStatus,
          failure, handoffs, workers, sm, engines, missing_reported, ops, mem, store,
                   tool, savedUnder, race>>

pipelineVars == <<user_input, events, reasoning_started, response_started,
                  agent_response_text, out, streamStatus, failure, handoffs>>

smVars == <<sm, engines>>

Pipeline ==
    [reasoning_started |-> reasoning_started, response_started |-> response_started,
     agent_response_text |-> agent_response_text, out |-> out]

SetPipeline(st) ==
    /\ reasoning_started' = st.reasoning_started
    /\ response_started' = st.response_started
    /\ agent_response_text' = st.agent_response_text
    /\ out' = st.out

\* the locals of process_user_input are gone once main() has left the chat loop
ClearInvocation ==
    /\ user_input' = << >>
    /\ events' = << >>
    /\ reasoning_started' = FALSE
    /\ response_started' = FALSE
    /\ agent_response_text' = << >>
    /\ out' = << >>
    /\ streamStatus' = "none"
    /\ failure' = "none"
    /\ handoffs' = << >>

Init ==
    /\ env \in [{"OPENAI_API_KEY", "DATABASE_URL"} -> EnvValues]
    /\ pc = "start"
    /\ exitReason = "none"
    /\ turn = 0
    /\ user_input = << >>
    /\ events = << >>
    /\ reasoning_started = FALSE
    /\ response_started = FALSE
    /\ agent_response_text = << >>
    /\ out = << >>
    /\ streamStatus = "none"
    /\ failure = "none"
    /\ handoffs = << >>
    /\ workers = << >>
    /\ sm = NoSessionManager
    /\ engines = << >>
    /\ missing_reported = << >>
    /\ ops = 0
    /\ agent = FALSE
    /\ mem = MemInit
    /\ store = StoreInit
    /\ tool = ToolInit
    /\ savedUnder = << >>
    /\ race = RaceInit

\* ------------------------------------------------------------ main(): startup
\* main.py 114-130: validate the environment, create the agent and the manager
Startup ==
    /\ pc = "start"
    /\ LET v == validate_environment(env)
       IN  IF ~v.is_valid
           THEN /\ missing_reported' = v.missing_vars
                /\ pc' = "done"
                /\ exitReason' = "config"
                /\ sm' = sm
                /\ agent' = agent
           ELSE /\ missing_reported' = missing_reported
                /\ pc' = "session"
                /\ exitReason' = exitReason
                /\ agent' = TRUE
                /\ sm' = SessionManagerInit
    /\ UNCHANGED <<env, turn, pipelineVars, workers, engines, ops, mem, store,
                   tool, savedUnder, race>>

\* main.py 133-140: create_session (the engine is created by the argument
\* engine=self.engine), then the welcome banner; an exception raised by the
\* SQLAlchemySession constructor or by a print is handled nowhere in main()
CreateSession(raises) ==
    /\ pc = "session"
    /\ \E sid \in GeneratedSessionIds :
          LET r == CreateSessionState(sm, engines, sid)
          IN  /\ sm' = r.sm
              /\ engines' = r.engines
    /\ IF raises
       THEN pc' = "done" /\ exitReason' = "crash"
       ELSE pc' = "loop" /\ exitReason' = exitReason
    /\ UNCHANGED <<env, agent, turn, pipelineVars, workers, missing_reported, ops, mem, store,
                   tool, savedUnder, race>>

\* ---------------------------------------------------------- main(): chat loop
\* GetInput with process_user_input started but not awaited (line 160)
GetInput_NotAwaited(raw) ==
    /\ pc \in {"loop", "stream"}
    /\ LET line == Strip(raw)
       IN  IF Lower(line) \in ExitCommands
           THEN /\ pc' = "cleanup"
                /\ exitReason' = "exit"
                /\ turn' = turn
                /\ ClearInvocation
           ELSE IF ~Truthy(line)
           THEN UNCHANGED <<pc, exitReason, turn, pipelineVars>>
           ELSE /\ turn < MaxTurns
                /\ turn' = turn + 1
                /\ pc' = "stream"
                /\ exitReason' = exitReason
                /\ user_input' = line
                /\ events' = << >>
                /\ SetPipeline(PipelineInit)
                /\ streamStatus' = "running"
                /\ failure' = "none"
                /\ handoffs' = << >>
    /\ UNCHANGED <<env, agent, workers, smVars, missing_reported, ops, mem, store,
                   tool, savedUnder, race>>

\* main.py 146-160: one line read at the prompt
GetInput(raw) ==
    /\ pc = "loop"
    /\ LET line == Strip(raw)
       IN  IF Lower(line) \in ExitCommands
           THEN /\ pc' = "cleanup"
                /\ exitReason' = "exit"
                /\ turn' = turn
                /\ ClearInvocation
           ELSE IF ~Truthy(line)
           THEN UNCHANGED <<pc, exitReason, turn, pipelineVars>>
           ELSE /\ turn < MaxTurns
                /\ turn' = turn + 1
                /\ pc' = "stream"
                /\ exitReason' = exitReason
                /\ user_input' = line
                /\ events' = << >>
                /\ SetPipeline(PipelineInit)
                /\ streamStatus' = "running"
                /\ failure' = "none"
                /\ handoffs' = << >>
    /\ UNCHANGED <<env, agent, workers, smVars, missing_reported, ops, mem, store,
                   tool, savedUnder, race>>

\* main.py 162-167: input() raises KeyboardInterrupt or EOFError
InputAborted(how) ==
    /\ pc = "loop"
    /\ pc' = "cleanup"
    /\ exitReason' = how
    /\ ClearInvocation
    /\ UNCHANGED <<env, agent, turn, workers, smVars, missing_reported, ops, mem, store,
                   tool, savedUnder, race>>

\* ------------------------------------------------------- process_user_input
\* main.py 58-86: the stream yields one event and the loop body handles it
ConsumeEvent(e) ==
    /\ pc = "stream"
    /\ Len(events) < MaxEvents
    /\ events' = Append(events, e)
    /\ SetPipeline(ProcessEvent(Pipeline, e, Len(events) + 1))
    /\ UNCHANGED <<env, agent, pc, exitReason, turn, user_input, streamStatus,
                   failure, handoffs, workers, smVars, missing_reported, ops, mem, store,
                   tool, savedUnder, race>>

\* StreamRaise with a handler that leaves the chat loop
StreamRaise_LeavesLoop ==
    /\ pc = "stream"
    /\ out' = Append(out, ErrorItem)
    /\ failure' = "stream"
    /\ streamStatus' = "raised"
    /\ pc' = "cleanup"
    /\ exitReason' = "error"
    /\ UNCHANGED <<env, agent, turn, user_input, events, reasoning_started,
                   response_started, agent_response_text, handoffs,
                   workers, smVars, missing_reported, ops, mem, store,
                   tool, savedUnder, race>>

\* StreamRaise with the hand-off of lines 92-94 made in the handler as well
StreamRaise_HandsOffPartial ==
    /\ pc = "stream"
    /\ out' = Append(out, ErrorItem)
    /\ failure' = "stream"
    /\ streamStatus' = "raised"
    /\ pc' = "loop"
    /\ IF Truthy(Strip(Join(agent_response_text)))
       THEN /\ handoffs' = Append(handoffs, <<user_input, Join(agent_response_text)>>)
            /\ workers' = Append(workers, "running")
       ELSE UNCHANGED <<handoffs, workers>>
    /\ UNCHANGED <<env, agent, exitReason, turn, user_input, events, reasoning_started,
                   response_started, agent_response_text,
                   smVars, missing_reported, ops, mem, store,
                   tool, savedUnder, race>>

\* main.py 53-58, 96-99: run_streamed or the stream raises an Exception
StreamRaise ==
    /\ pc = "stream"
    /\ out' = Append(out, ErrorItem)
    /\ failure' = "stream"
    /\ streamStatus' = "raised"
    /\ pc' = "loop"
    /\ UNCHANGED <<env, agent, exitReason, turn, user_input, events, reasoning_started,
                   response_started, agent_response_text, handoffs,
                   workers, smVars, missing_reported, ops, mem, store,
                   tool, savedUnder, race>>

\* A keyboard interrupt while the turn is streamed.  "keyboard": KeyboardInterrupt
\* is raised inside the coroutine, passes `except Exception` (line 96) and is
\* caught at line 162.  "cancelled": the interrupt reaches the event loop, which
\* cancels the main task (main.py 188, asyncio.run); CancelledError is no
\* Exception and no KeyboardInterrupt, so it leaves main() through lines 96 and
\* 162-170 and the cleanup at 173-176 is not run.
StreamInterrupt(how) ==
    /\ pc = "stream"
    /\ IF how = "keyboard"
       THEN pc' = "cleanup" /\ exitReason' = "interrupt"
       ELSE pc' = "done" /\ exitReason' = "cancelled"
    /\ ClearInvocation
    /\ UNCHANGED <<env, agent, turn, workers, smVars, missing_reported, ops, mem, store,
                   tool, savedUnder, race>>

\* main.py 92-93: the answer text collected by the invocation, and the test
\* that decides whether it is handed to the memory processor
full_response == Join(agent_response_text)

\* the test of line 93 without strip()
ShouldProcess_NoStrip(text) == Truthy(text)

ShouldProcess(text) == Truthy(Strip(text))

\* main.py 88-93: the stream is exhausted
StreamEnd ==
    /\ pc = "stream"
    /\ out' = Append(out, Separator)
    /\ streamStatus' = "completed"
    /\ pc' = IF ShouldProcess(full_response) THEN "handoff" ELSE "loop"
    /\ UNCHANGED <<env, agent, exitReason, turn, user_input, events, reasoning_started,
                   response_started, agent_response_text, failure,
                   handoffs, workers, smVars, missing_reported, ops, mem, store,
                   tool, savedUnder, race>>

\* memory_processor.start_memory_processing: a worker process is started with
\* the serialized arguments and the call returns without waiting for it
start_memory_processing(ws) == Append(ws, "running")

\* the call of line 94 followed by a wait for the worker it started
Handoff_WaitsForWorker(raises) ==
    /\ pc = "handoff"
    /\ IF handoffs = << >>
       THEN /\ handoffs' = Append(handoffs, <<user_input, full_response>>)
            /\ IF raises
               THEN /\ out' = Append(out, ErrorItem)
                    /\ failure' = "dispatch"
                    /\ workers' = workers
                    /\ pc' = "loop"
               ELSE /\ workers' = start_memory_processing(workers)
                    /\ pc' = "handoff"
                    /\ UNCHANGED <<out, failure>>
       ELSE /\ workers[Len(workers)] # "running"
            /\ pc' = "loop"
            /\ UNCHANGED <<handoffs, out, failure, workers>>
    /\ UNCHANGED <<env, agent, exitReason, turn, user_input, events, reasoning_started,
                   response_started, agent_response_text, streamStatus,
                   smVars, missing_reported, ops, mem, store,
                   tool, savedUnder, race>>

\* main.py 94, 96-99: the call of start_memory_processing inside the try block
Handoff(raises) ==
    /\ pc = "handoff"
    /\ handoffs' = Append(handoffs, <<user_input, full_response>>)
    /\ IF raises
       THEN /\ out' = Append(out, ErrorItem)
            /\ failure' = "dispatch"
            /\ workers' = workers
       ELSE /\ workers' = start_memory_processing(workers)
            /\ UNCHANGED <<out, failure>>
    /\ pc' = "loop"
    /\ UNCHANGED <<env, agent, exitReason, turn, user_input, events, reasoning_started,
                   response_started, agent_response_text, streamStatus,
                   smVars, missing_reported, ops, mem, store,
                   tool, savedUnder, race>>

\* ------------------------------------------------------------ main(): cleanup
\* main.py 172-176
MainCleanup ==
    /\ pc = "cleanup"
    /\ LET r == Cleanup(sm, engines)
       IN  /\ sm' = r.sm
           /\ engines' = r.engines
    /\ pc' = "done"
    /\ UNCHANGED <<env, agent, exitReason, turn, pipelineVars, workers, missing_reported, ops, mem, store,
                   tool, savedUnder, race>>

\* --------------------------------------------------------- background workers
\* a worker process ends, normally or with a failure
WorkerEnds(i, how) ==
    /\ i \in 1..Len(workers)
    /\ workers[i] = "running"
    /\ workers' = [workers EXCEPT ![i] = how]
    /\ UNCHANGED <<env, agent, pc, exitReason, turn, pipelineVars, smVars,
                   missing_reported, ops, mem, store,
                   tool, savedUnder, race>>

MainNext ==
    \/ Startup
    \/ \E raises \in BOOLEAN : CreateSession(raises)
    \/ \E raw \in RawInputs : GetInput(raw)
    \/ \E how \in {"interrupt", "eof"} : InputAborted(how)
    \/ \E e \in StreamEvents : ConsumeEvent(e)
    \/ StreamRaise
    \/ \E how \in {"keyboard", "cancelled"} : StreamInterrupt(how)
    \/ StreamEnd
    \/ \E raises \in BOOLEAN : Handoff(raises)
    \/ MainCleanup

WorkerNext ==
    \E i \in 1..Len(workers), how \in {"done", "failed"} : WorkerEnds(i, how)

Next == MainNext \/ WorkerNext

Spec == Init /\ [][Next]_vars

\* ------------------------------------------- SessionManager, called freely
\* any sequence of engine accesses, create_session and cleanup calls on one
\* SessionManager; pc names the last call made
SMInit ==
    /\ env = [v \in {"OPENAI_API_KEY", "DATABASE_URL"} |-> [present |-> TRUE, value |-> <<"v">>]]
    /\ pc = "new"
    /\ exitReason = "none"
    /\ turn = 0
    /\ user_input = << >>
    /\ events = << >>
    /\ reasoning_started = FALSE
    /\ response_started = FALSE
    /\ agent_response_text = << >>
    /\ out = << >>
    /\ streamStatus = "none"
    /\ failure = "none"
    /\ handoffs = << >>
    /\ workers = << >>
    /\ sm = SessionManagerInit
    /\ engines = << >>
    /\ missing_reported = << >>
    /\ ops = 0
    /\ agent = FALSE
    /\ mem = MemInit
    /\ store = StoreInit
    /\ tool = ToolInit
    /\ savedUnder = << >>
    /\ race = RaceInit

SMFrame ==
    UNCHANGED <<env, agent, exitReason, turn, pipelineVars, workers, missing_reported,
                mem, store,
                   tool, savedUnder, race>>

SMEngine ==
    /\ ops < MaxOps
    /\ ops' = ops + 1
    /\ pc' = "engine"
    /\ LET r == EngineAccess(sm, engines)
       IN  sm' = r.sm /\ engines' = r.engines
    /\ SMFrame

SMCreateSession(sid) ==
    /\ ops < MaxOps
    /\ ops' = ops + 1
    /\ pc' = "create_session"
    /\ LET r == CreateSessionState(sm, engines, sid)
       IN  sm' = r.sm /\ engines' = r.engines
    /\ SMFrame

SMCleanup ==
    /\ ops < MaxOps
    /\ ops' = ops + 1
    /\ pc' = "cleanup"
    /\ LET r == Cleanup(sm, engines)
       IN  sm' = r.sm /\ engines' = r.engines
    /\ SMFrame

SMNext ==
    \/ SMEngine
    \/ \E sid \in GeneratedSessionIds \cup GivenSessionIds : SMCreateSession(sid)
    \/ SMCleanup

SMSpec == SMInit /\ [][SMNext]_vars

\* -------------------------------------------- sessions of one session manager
\* any sequence of create_session calls, turns run with one of the sessions
\* created, reads of a session and cleanups
SessFrame ==
    UNCHANGED <<env, agent, exitReason, turn, pipelineVars, workers, missing_reported, mem,
                tool, savedUnder, race>>

\* create_session(session_id): requested is the argument, None included
SessCreate(requested, generated) ==
    /\ ops < MaxOps
    /\ ops' = ops + 1
    /\ pc' = "create_session"
    /\ requested = NoSessionId =>
          /\ store.history[generated] = << >>
          /\ \A h \in store.sessions : h.session_id # generated
    /\ LET session_id == IF requested = NoSessionId THEN generated ELSE requested
           r == CreateSessionState(sm, engines, session_id)
           session == NewSession(r.sm._current_session_id, r.sm._engine)
       IN  /\ sm' = r.sm
           /\ engines' = r.engines
           /\ store' = [store EXCEPT !.sessions = @ \cup {session},
                                     !.last = [NoStoreCall EXCEPT !.op = "create_session",
                                                                  !.requested = requested,
                                                                  !.session_id = session.session_id,
                                                                  !.read = GetItems(store, session)]]
    /\ SessFrame

\* process_user_input with one of the sessions: the run reads the history of
\* the session and adds its items to it
SessTurn(session, text, saved) ==
    /\ ops < MaxOps
    /\ ops' = ops + 1
    /\ pc' = "turn"
    /\ session \in store.sessions
    /\ LET items == RunItems(text, ops + 1, saved)
       IN  store' = [AddItems(store, session, items) EXCEPT
                        !.last = [NoStoreCall EXCEPT !.op = "turn",
                                                     !.session_id = session.session_id,
                                                     !.read = GetItems(store, session),
                                                     !.added = items]]
    /\ UNCHANGED smVars
    /\ SessFrame

\* the history of a session is read
SessRead(session) ==
    /\ ops < MaxOps
    /\ ops' = ops + 1
    /\ pc' = "read"
    /\ session \in store.sessions
    /\ store' = [store EXCEPT !.last = [NoStoreCall EXCEPT !.op = "read",
                                                           !.session_id = session.session_id,
                                                           !.read = GetItems(store, session)]]
    /\ UNCHANGED smVars
    /\ SessFrame

SessCleanup ==
    /\ ops < MaxOps
    /\ ops' = ops + 1
    /\ pc' = "cleanup"
    /\ LET r == Cleanup(sm, engines)
       IN  sm' = r.sm /\ engines' = r.engines
    /\ store' = [store EXCEPT !.last = NoStoreCall]
    /\ SessFrame

SessNext ==
    \/ \E requested \in GivenSessionIds \cup {NoSessionId}, generated \in GeneratedSessionIds :
          SessCreate(requested, generated)
    \/ \E session \in store.sessions, text \in {<<"h", "i">>}, saved \in {"none", "input", "all"} :
          SessTurn(session, text, saved)
    \/ \E session \in store.sessions : SessRead(session)
    \/ SessCleanup

SessSpec == SMInit /\ [][SessNext]_vars

\* --------------------------------------------------- the agent calls its tools
MaxToolCalls == 2

ToolFrame ==
    UNCHANGED <<env, agent, pc, exitReason, turn, pipelineVars, workers, smVars,
                missing_reported, ops, mem, store, savedUnder, race>>

\* the agent calls execute_sql_query
SqlCall(query, fault, rows) ==
    /\ tool.calls < MaxToolCalls
    /\ LET r == execute_sql_query(tool, env, query, fault, rows)
       IN  tool' = [calls |-> tool.calls + 1,
                    conns |-> r.conns,
                    last |-> [NoToolCall EXCEPT !.tool = "sql", !.query = query,
                                                !.fault = fault, !.rows = rows,
                                                !.result = r.result]]
    /\ ToolFrame

\* the agent calls execute_shell_command
ShellCall(outcome) ==
    /\ tool.calls < MaxToolCalls
    /\ tool' = [tool EXCEPT !.calls = @ + 1,
                            !.last = [NoToolCall EXCEPT !.tool = "shell",
                                                        !.outcome = outcome,
                                                        !.result = execute_shell_command(outcome)]]
    /\ ToolFrame

ToolNext ==
    \/ \E query \in Queries, fault \in SqlFaults, rows \in RowCounts : SqlCall(query, fault, rows)
    \/ \E outcome \in ShellOutcomes : ShellCall(outcome)

\* the tools are called with DATABASE_URL set, empty or absent
ToolStart ==
    /\ env \in [{"OPENAI_API_KEY", "DATABASE_URL"} -> EnvValues]
    /\ env["OPENAI_API_KEY"] = [present |-> TRUE, value |-> <<"v">>]
    /\ pc = "tools"
    /\ exitReason = "none"
    /\ turn = 0
    /\ user_input = << >>
    /\ events = << >>
    /\ reasoning_started = FALSE
    /\ response_started = FALSE
    /\ agent_response_text = << >>
    /\ out = << >>
    /\ streamStatus = "none"
    /\ failure = "none"
    /\ handoffs = << >>
    /\ workers = << >>
    /\ sm = NoSessionManager
    /\ engines = << >>
    /\ missing_reported = << >>
    /\ ops = 0
    /\ agent = TRUE
    /\ mem = MemInit
    /\ store = StoreInit
    /\ tool = ToolInit
    /\ savedUnder = << >>
    /\ race = RaceInit

ToolSpec == ToolStart /\ [][ToolNext]_vars

\* ----------------------------------------- memory subsystem, called freely
\* any sequence of save_memory, recall_memory and _ensure_collection_exists
\* calls made by the two processes against one vector store
MaxCalls == 3

MemFrame ==
    UNCHANGED <<env, agent, pc, exitReason, turn, pipelineVars, workers, smVars,
                missing_reported, ops, store, tool, race>>

Finish(r) ==
    mem' = [r.m EXCEPT !.calls = @ + 1, !.last = [r.call EXCEPT !.prev = mem.last.op]]

SaveMemory(p, content, fail) ==
    /\ mem.calls < MaxCalls
    /\ Finish(save_memory(mem, p, content, fail))
    /\ savedUnder' = IF Len(mem'.points) > Len(mem.points)
                     THEN Append(savedUnder, sm._current_session_id)
                     ELSE savedUnder
    /\ MemFrame

\* RecallMemory searching only the records saved under the current session id
RecallMemory_SessionScoped(p, query, limit, fail) ==
    /\ mem.calls < MaxCalls
    /\ LET idx == {i \in DOMAIN mem.points : savedUnder[i] = sm._current_session_id}
           visible == [j \in 1..Cardinality(idx) |->
                          mem.points[CHOOSE i \in idx :
                                        Cardinality({x \in idx : x < i}) = j - 1]]
           scoped == [mem EXCEPT !.points = visible]
       IN  \E ranking \in SearchRankings(visible, Embed(query), limit) :
              LET r == recall_memory(scoped, p, query, limit, fail, ranking)
              IN  Finish([m |-> [r.m EXCEPT !.points = mem.points], call |-> r.call])
    /\ UNCHANGED savedUnder
    /\ MemFrame

RecallMemory(p, query, limit, fail) ==
    /\ mem.calls < MaxCalls
    /\ \E ranking \in SearchRankings(mem.points, Embed(query), limit) :
          Finish(recall_memory(mem, p, query, limit, fail, ranking))
    /\ UNCHANGED savedUnder
    /\ MemFrame

EnsureCollection(p, fail) ==
    /\ mem.calls < MaxCalls
    /\ LET e == EnsureCollectionExists(mem, p, fail)
       IN  Finish([m |-> e.m,
                   call |-> Call("ensure", p, "", 0, fail, e.warned,
                                 Result("", 0, NoHits), << >>, NoClient, e.m._qdrant_client[p])])
    /\ UNCHANGED savedUnder
    /\ MemFrame

MemNext ==
    \/ \E p \in Procs, t \in Texts, fail \in FailuresOf(SaveCalls) : SaveMemory(p, t, fail)
    \/ \E p \in Procs, t \in Texts, limit \in Limits, fail \in FailuresOf(RecallCalls) :
          RecallMemory(p, t, limit, fail)
    \/ \E p \in Procs, fail \in FailuresOf(EnsureCalls) : EnsureCollection(p, fail)

\* memory.py has been imported in both processes and nothing else has run
MemStart ==
    /\ env = [v \in {"OPENAI_API_KEY", "DATABASE_URL"} |-> [present |-> TRUE, value |-> <<"v">>]]
    /\ pc = "imported"
    /\ exitReason = "none"
    /\ turn = 0
    /\ user_input = << >>
    /\ events = << >>
    /\ reasoning_started = FALSE
    /\ response_started = FALSE
    /\ agent_response_text = << >>
    /\ out = << >>
    /\ streamStatus = "none"
    /\ failure = "none"
    /\ handoffs = << >>
    /\ workers = << >>
    /\ sm = NoSessionManager
    /\ engines = << >>
    /\ missing_reported = << >>
    /\ ops = 0
    /\ agent = FALSE
    /\ mem = MemInit
    /\ store = StoreInit
    /\ tool = ToolInit
    /\ savedUnder = << >>
    /\ race = RaceInit

MemSpec == MemStart /\ [][MemNext]_vars

\* ------------------------------------------ memory calls running side by side
\* The main process calls recall_memory while the worker process calls
\* save_memory; each external call of _ensure_collection_exists is one step.
RaceFrame ==
    UNCHANGED <<env, agent, pc, exitReason, turn, pipelineVars, workers, smVars,
                missing_reported, ops, store, tool>>

InProgress == {p \in Procs : race[p].pc \in {"creating", "ensured"}}

\* memory.py 44-49: the call begins, the client is fetched and the collections
\* are listed
RaceCheck(p) ==
    /\ race[p].pc \in {"idle", "done"}
    /\ mem.calls + Cardinality(InProgress) < MaxCalls
    /\ LET g == GetQdrantClient(mem, p)
       IN  /\ mem' = g.m
           /\ race' = [race EXCEPT ![p] =
                         [pc |-> IF CollectionName \notin Range(g.m.collections)
                                 THEN "creating" ELSE "ensured",
                          warned |-> FALSE, escaped |-> FALSE]]
    /\ UNCHANGED savedUnder
    /\ RaceFrame

\* RaceCreate letting the exception of create_collection reach the caller
RaceCreate_Raises(p) ==
    /\ race[p].pc = "creating"
    /\ LET c == CreateCollection(mem.collections, CollectionName, {})
           m1 == [mem EXCEPT !.collections = c.collections]
       IN  IF c.ok
           THEN /\ mem' = m1
                /\ race' = [race EXCEPT ![p].pc = "ensured"]
           ELSE /\ Finish([m |-> m1,
                           call |-> Call(IF p = "main" THEN "recall" ELSE "save", p, "", 0, {},
                                         FALSE, IF p = "main" THEN RecallFailed ELSE SaveFailed,
                                         << >>, NoClient, m1._qdrant_client[p])])
                /\ race' = [race EXCEPT ![p].pc = "done", ![p].escaped = TRUE]
    /\ UNCHANGED savedUnder
    /\ RaceFrame

\* memory.py 51-59: create_collection, and the warning when it raises
RaceCreate(p) ==
    /\ race[p].pc = "creating"
    /\ LET c == CreateCollection(mem.collections, CollectionName, {})
       IN  /\ mem' = [mem EXCEPT !.collections = c.collections]
           /\ race' = [race EXCEPT ![p].pc = "ensured", ![p].warned = ~c.ok]
    /\ UNCHANGED savedUnder
    /\ RaceFrame

\* the worker's save_memory from memory.py 89 on
RaceSave(content) ==
    /\ race["worker"].pc = "ensured"
    /\ Finish(SaveBody([m |-> mem, warned |-> race["worker"].warned], "worker", content, {}))
    /\ race' = [race EXCEPT !["worker"].pc = "done"]
    /\ savedUnder' = IF Len(mem'.points) > Len(mem.points)
                     THEN Append(savedUnder, sm._current_session_id)
                     ELSE savedUnder
    /\ RaceFrame

\* the main process's recall_memory from memory.py 133 on
RaceRecall(query, limit) ==
    /\ race["main"].pc = "ensured"
    /\ \E ranking \in SearchRankings(mem.points, Embed(query), limit) :
          Finish(RecallBody([m |-> mem, warned |-> race["main"].warned], "main",
                            query, limit, {}, ranking))
    /\ race' = [race EXCEPT !["main"].pc = "done"]
    /\ UNCHANGED savedUnder
    /\ RaceFrame

RaceNext ==
    \/ \E p \in Procs : RaceCheck(p)
    \/ \E p \in Procs : RaceCreate(p)
    \/ \E t \in Texts : RaceSave(t)
    \/ \E t \in Texts, limit \in Limits : RaceRecall(t, limit)

RaceSpec == MemStart /\ [][RaceNext]_vars

\* ------------------------------------- memory calls while sessions come and go
\* main() creates a session (main.py 130-133); the session id of the manager is
\* the only session state there is
SessionStarts(sid) ==
    /\ sm._current_session_id # sid
    /\ LET r == CreateSessionState(sm, engines, sid)
       IN  sm' = r.sm /\ engines' = r.engines
    /\ UNCHANGED <<env, agent, pc, exitReason, turn, pipelineVars, workers,
                   missing_reported, ops, mem, store, tool, savedUnder, race>>

GlobalMemNext ==
    \/ \E sid \in GivenSessionIds : SessionStarts(sid)
    \/ \E p \in Procs, t \in Texts : SaveMemory(p, t, {})
    \/ \E p \in Procs, t \in Texts, limit \in Limits : RecallMemory(p, t, limit, {})

\* memory.py has been imported in both processes and main() has a session manager
GlobalMemStart ==
    /\ env = [v \in {"OPENAI_API_KEY", "DATABASE_URL"} |-> [present |-> TRUE, value |-> <<"v">>]]
    /\ pc = "imported"
    /\ exitReason = "none"
    /\ turn = 0
    /\ user_input = << >>
    /\ events = << >>
    /\ reasoning_started = FALSE
    /\ response_started = FALSE
    /\ agent_response_text = << >>
    /\ out = << >>
    /\ streamStatus = "none"
    /\ failure = "none"
    /\ handoffs = << >>
    /\ workers = << >>
    /\ sm = SessionManagerInit
    /\ engines = << >>
    /\ missing_reported = << >>
    /\ ops = 0
    /\ agent = TRUE
    /\ mem = MemInit
    /\ store = StoreInit
    /\ tool = ToolInit
    /\ savedUnder = << >>
    /\ race = RaceInit

GlobalMemSpec == GlobalMemStart /\ [][GlobalMemNext]_vars

\* ===================================================================== claims
Positions(kind) == {i \in DOMAIN out : out[i].kind = kind}

ReasoningEvents == {k \in DOMAIN events : IsReasoningDelta(events[k])}
AnswerEvents == {k \in DOMAIN events : IsAnswerDelta(events[k])}

\* the payload texts of a sequence of output items, in order
RECURSIVE PayloadTexts(_)
PayloadTexts(items) ==
    IF items = << >> THEN << >>
    ELSE IF Head(items).kind \in {"reasoning_text", "response_text"}
         THEN <<Head(items).text>> \o PayloadTexts(Tail(items))
         ELSE PayloadTexts(Tail(items))

\* the non-empty payloads of the delta events of a stream, in arrival order
RECURSIVE DeltaPayloads(_)
DeltaPayloads(evs) ==
    IF evs = << >> THEN << >>
    ELSE IF (IsReasoningDelta(Head(evs)) \/ IsAnswerDelta(Head(evs)))
            /\ Head(evs).hasDelta /\ Head(evs).delta # << >>
         THEN <<Head(evs).delta>> \o DeltaPayloads(Tail(evs))
         ELSE DeltaPayloads(Tail(evs))

\* the concatenation of the payloads of the answer-delta events, in arrival order
RECURSIVE AnswerConcat(_)
AnswerConcat(evs) ==
    IF evs = << >> THEN << >>
    ELSE IF IsAnswerDelta(Head(evs)) /\ Head(evs).hasDelta
         THEN Head(evs).delta \o AnswerConcat(Tail(evs))
         ELSE AnswerConcat(Tail(evs))

\* C1: in every invocation the reasoning-open marker is printed once if a
\* reasoning-delta event was consumed and never otherwise, and before every
\* reasoning payload; likewise the response-open marker for answer-delta events.
C1_OpenMarkersExactlyOnce ==
    /\ Cardinality(Positions("reasoning_open")) = (IF ReasoningEvents # {} THEN 1 ELSE 0)
    /\ \A i \in Positions("reasoning_open"), j \in Positions("reasoning_text") : i < j
    /\ Positions("reasoning_text") # {} => Positions("reasoning_open") # {}
    /\ Cardinality(Positions("response_open")) = (IF AnswerEvents # {} THEN 1 ELSE 0)
    /\ \A i \in Positions("response_open"), j \in Positions("response_text") : i < j
    /\ Positions("response_text") # {} => Positions("response_open") # {}

\* two reasoning deltas and an answer delta were consumed and their text printed
C1_Witness ==
    /\ Cardinality(ReasoningEvents) >= 2
    /\ AnswerEvents # {}
    /\ Positions("reasoning_text") # {}
    /\ Positions("response_text") # {}

\* C2: when a stream has completed, the accumulated response text is the
\* concatenation, in arrival order, of the payloads of the answer-delta events
\* of the invocation and of nothing else.
C2_AccumulatedAnswerText ==
    streamStatus = "completed" =>
        /\ full_response = AnswerConcat(events)
        /\ \A i \in DOMAIN handoffs : handoffs[i][2] = AnswerConcat(events)

\* a completed stream with a reasoning payload and two different answer payloads
C2_Witness ==
    /\ streamStatus = "completed"
    /\ Positions("reasoning_text") # {}
    /\ full_response = <<"x", " ">>

\* C3: the reasoning-closed marker is printed at most once; when the response
\* channel opens after the reasoning channel, the closed marker stands between
\* the two open markers; when it opens with no reasoning channel open, no
\* closed marker is printed.
C3_ReasoningClosedBeforeResponse ==
    /\ Cardinality(Positions("reasoning_close")) <= 1
    /\ \A i \in Positions("response_open") :
          IF \E r \in Positions("reasoning_open") : r < i
          THEN \E c \in Positions("reasoning_close") :
                  /\ c < i
                  /\ \A r \in Positions("reasoning_open") : r < c
                  /\ out[c].ev = out[i].ev
          ELSE Positions("reasoning_close") = {}
    /\ Positions("response_open") = {} => Positions("reasoning_close") = {}

\* the response channel opened after the reasoning channel
C3_Witness ==
    /\ Positions("reasoning_close") # {}
    /\ Positions("response_open") # {}
    /\ Positions("response_text") # {}

\* C4: the payload texts printed are the non-empty payloads of the delta events
\* in arrival order, and whatever event k causes is printed while event k is
\* handled: after k events nothing of them is outstanding and the output is in
\* event order.
C4_NoReorderNoBuffer ==
    /\ PayloadTexts(out) = DeltaPayloads(events)
    /\ \A i \in DOMAIN out : out[i].ev <= Len(events)
    /\ \A i, j \in DOMAIN out :
          (i < j /\ out[i].ev > 0 /\ out[j].ev > 0) => out[i].ev <= out[j].ev
    /\ \A k \in DOMAIN events :
          ((IsReasoningDelta(events[k]) \/ IsAnswerDelta(events[k]))
                /\ events[k].hasDelta /\ events[k].delta # << >>)
            => \E i \in DOMAIN out : out[i].ev = k /\ out[i].text = events[k].delta

\* an answer payload, then a reasoning payload, then an answer payload
C4_Witness ==
    /\ Len(events) = 3
    /\ IsAnswerDelta(events[1]) /\ IsReasoningDelta(events[2]) /\ IsAnswerDelta(events[3])
    /\ PayloadTexts(out) = <<<<"x">>, <<"a">>, <<" ">>>>

\* C5: after an exception raised while the stream is consumed, the error is the
\* last thing the turn printed, the turn handles no further event and makes no
\* hand-off, main() has not left the chat loop but stands at the prompt, and
\* there the next line is accepted and starts the next turn.
C5_StreamErrorRecovered ==
    streamStatus = "raised" =>
        /\ out # << >> /\ out[Len(out)] = ErrorItem
        /\ Cardinality(Positions("error")) = 1
        /\ handoffs = << >>
        /\ pc = "loop"
        /\ exitReason = "none"
        /\ turn < MaxTurns =>
              ENABLED (\E raw \in RawInputs : GetInput(raw) /\ pc' = "stream")

\* the first turn ended with a stream error after an answer payload was printed
C5_Witness ==
    /\ streamStatus = "raised"
    /\ turn = 1
    /\ Positions("response_text") # {}
    /\ pc = "loop"

\* C6 as stated: a completed turn hands off exactly when its accumulated answer
\* text is non-empty, and never more than once.
C6_HandoffIffNonEmpty ==
    /\ Len(handoffs) <= 1
    /\ (streamStatus = "completed" /\ pc # "handoff") =>
          Len(handoffs) = (IF AnswerConcat(events) # << >> THEN 1 ELSE 0)

\* C6 amended: a completed turn calls start_memory_processing once, with its
\* user input and its accumulated answer text, exactly when that text has a
\* character that is not whitespace; a turn whose text is empty or whitespace
\* only, or whose stream did not complete, makes no call; no turn makes two.
C6_HandoffIffNonBlank ==
    /\ Len(handoffs) <= 1
    /\ streamStatus # "completed" => handoffs = << >>
    /\ (streamStatus = "completed" /\ pc # "handoff") =>
          IF Strip(AnswerConcat(events)) # << >>
          THEN handoffs = << <<user_input, AnswerConcat(events)>> >>
          ELSE handoffs = << >>

\* the second turn handed off a text with leading whitespace, the worker runs
C6_Witness ==
    /\ turn = 2
    /\ pc = "loop"
    /\ handoffs = << << <<"h", "i">>, <<" ", "x">> >> >>
    /\ workers[Len(workers)] = "running"

\* C7: main() never waits for a worker: whatever the workers do, at the prompt
\* a line can be read, a started hand-off returns, an open stream can be
\* finished and the cleanup can run.
C7_MainNeverWaitsForWorker ==
    /\ pc = "loop" => ENABLED (\E raw \in RawInputs : GetInput(raw))
    /\ (pc = "loop" /\ turn < MaxTurns) =>
          ENABLED (\E raw \in RawInputs : GetInput(raw) /\ pc' = "stream")
    /\ pc = "handoff" => ENABLED (\E raises \in BOOLEAN : Handoff(raises))
    /\ pc = "stream" => ENABLED StreamEnd
    /\ pc = "cleanup" => ENABLED MainCleanup

\* the next turn is streaming while the worker of the first turn still runs
C7_Witness ==
    /\ turn = 2
    /\ pc = "stream"
    /\ events # << >>
    /\ workers = <<"running">>

\* C8 as stated: a failure of the background processing, also one raised by the
\* hand-off call itself, is never shown to the user as an error of the turn and
\* never ends the chat loop: the turn prints an error only for a stream failure.
C8_BackgroundFailureNotSurfaced ==
    /\ Positions("error") # {} => failure = "stream"
    /\ failure = "dispatch" => exitReason \in {"none", "exit", "eof", "interrupt"}

\* C9 as stated: whenever main() has ended after the session manager was
\* created, one engine was created and it was disposed exactly once.
C9_EngineDisposedOnEveryExit ==
    (pc = "done" /\ sm.exists) =>
        /\ Len(engines) = 1
        /\ engines[1] = 1
        /\ sm._engine = NoEngine

\* C10: for every sequence of engine accesses, create_session and cleanup calls,
\* no engine is disposed twice, an engine that is held has not been disposed,
\* after cleanup no engine is held, and one more cleanup changes nothing.
C10_CleanupIdempotent ==
    /\ \A i \in DOMAIN engines : engines[i] <= 1
    /\ sm._engine # NoEngine => (sm._engine \in DOMAIN engines /\ engines[sm._engine] = 0)
    /\ pc = "cleanup" =>
          /\ sm._engine = NoEngine
          /\ Cleanup(sm, engines) = [sm |-> sm, engines |-> engines]
          /\ \A i \in DOMAIN engines : engines[i] = 1

\* cleanup was called twice in a row after two engines had been created
C10_Witness ==
    /\ pc = "cleanup"
    /\ Len(engines) = 2
    /\ ops >= 5

\* C18: a turn starts only from the prompt, one at a time, and only when the
\* stream of the previous turn is no longer being consumed (it completed or
\* raised); a stream is being consumed exactly while main() is inside that turn.
C18_TurnsStrictlySequential ==
    /\ [](streamStatus = "running" <=> pc = "stream")
    /\ [](pc = "handoff" => streamStatus = "completed")
    /\ [][turn' # turn =>
            /\ turn' = turn + 1
            /\ pc = "loop" /\ streamStatus \in {"none", "completed", "raised"}
            /\ pc' = "stream" /\ events' = << >>]_vars

\* the second turn is streaming after the first one was handed off
C18_Witness ==
    /\ turn = 2
    /\ pc = "stream"
    /\ Len(events) >= 2
    /\ workers # << >>

\* the required settings that are unset or empty
MissingSettings ==
    {v \in {"OPENAI_API_KEY", "DATABASE_URL"} : ~env[v].present \/ env[v].value = << >>}

\* C19: once startup has run, if a required setting is unset or empty main()
\* has returned after reporting exactly the missing settings, each once, and
\* has created no agent, no session manager, no engine, no session and run no
\* turn; if none is missing nothing is reported and startup went on.
C19_FatalStartup ==
    pc # "start" =>
        IF MissingSettings # {}
        THEN /\ pc = "done" /\ exitReason = "config"
             /\ {missing_reported[i] : i \in DOMAIN missing_reported} = MissingSettings
             /\ Len(missing_reported) = Cardinality(MissingSettings)
             /\ validate_environment(env).missing_vars = missing_reported
             /\ ~validate_environment(env).is_valid
             /\ ~agent /\ ~sm.exists /\ engines = << >>
             /\ sm._current_session_id = NoSessionId
             /\ turn = 0 /\ streamStatus = "none" /\ out = << >>
        ELSE /\ missing_reported = << >>
             /\ validate_environment(env).is_valid
             /\ agent /\ sm.exists

\* main() returned at startup because DATABASE_URL is set to the empty string
C19_Witness ==
    /\ pc = "done"
    /\ env["DATABASE_URL"] = [present |-> TRUE, value |-> << >>]
    /\ missing_reported = <<"DATABASE_URL">>

\* ------------------------------------------------------ memory subsystem claims
\* a step in which a call of the memory subsystem returns
MemStep(op) == mem'.calls = mem.calls + 1 /\ mem'.last.op = op

\* what the environment made fail in the call that just returned, read off the
\* failures it injected and the state the call started from
CheckFails(m, c) ==
    \/ "get_collections" \in c.fail
    \/ CollectionName \notin Range(m.collections) /\ "create_collection" \in c.fail

EmbeddingFails(m, c) ==
    \/ "embeddings" \in c.fail
    \/ "OpenAI" \in c.fail /\ m._openai_client[c.proc] = NoClient

CollectionMissing(m, c) == CollectionName \notin Range(m.collections) /\ CheckFails(m, c)

UpsertFails(m, c) ==
    ~EmbeddingFails(m, c) /\ ("upsert" \in c.fail \/ CollectionMissing(m, c))

SearchFails(m, c) ==
    ~EmbeddingFails(m, c) /\ ("search" \in c.fail \/ CollectionMissing(m, c))

Ids(pts) == {pts[i].id : i \in DOMAIN pts}

IsPrefix(a, b) == Len(a) <= Len(b) /\ \A i \in DOMAIN a : a[i] = b[i]

C12_RecordsOnlyGrow ==
    /\ [](\A i, j \in DOMAIN mem.points : mem.points[i].id = mem.points[j].id => i = j)
    /\ [][/\ IsPrefix(mem.points, mem'.points)
          /\ MemStep("recall") \/ MemStep("ensure") => mem'.points = mem.points
          /\ MemStep("save") /\ mem'.last.result # SaveFailed =>
                LET c == mem'.last
                    new == mem'.points[Len(mem'.points)]
                IN  /\ Len(mem'.points) = Len(mem.points) + 1
                    /\ new.id \notin Ids(mem.points)
                    /\ c.result = Saved(new.id)
                    /\ new.content = c.text
                    /\ new.vector = Embed(c.text)]_vars

C12_Witness ==
    /\ Len(mem.points) = 2
    /\ mem.points[1].content = mem.points[2].content
    /\ mem.last.op = "recall"
    /\ mem.last.result.head = Found(NoHits).head

ScoreOf(pt, c) == Cosine(Embed(c.text), pt.vector)

HitIds(c) == {c.result.hits[i].id : i \in DOMAIN c.result.hits}

C15_RanksFollowStoreOrder ==
    [][MemStep("recall") =>
        LET c == mem'.last
            hits == c.result.hits
        IN  /\ Len(hits) <= c.limit
            /\ Len(hits) = Len(c.returned)
            /\ \A i \in DOMAIN hits :
                  /\ hits[i].rank = i
                  /\ hits[i].id = c.returned[i]
                  /\ \E k \in DOMAIN mem.points :
                        /\ mem.points[k].id = hits[i].id
                        /\ hits[i].content = mem.points[k].content
                        /\ hits[i].score = Fmt3(ScoreOf(mem.points[k], c))
            /\ \A i, j \in DOMAIN hits : i < j =>
                  /\ hits[i].score >= hits[j].score
                  /\ hits[i].id # hits[j].id]_vars

C15_Witness ==
    /\ mem.last.op = "recall"
    /\ Len(mem.last.result.hits) = 2
    /\ mem.last.result.hits[1].score > mem.last.result.hits[2].score
    /\ mem.last.result.hits[2].rank = 2

CountOf(seq, x) == Cardinality({i \in DOMAIN seq : seq[i] = x})

\* C16: _ensure_collection_exists never changes the records; it creates the
\* collection only when there is none of that name, so there is never more than
\* one; when the store answers it prints no warning and leaves exactly one
\* collection named "memory", however often it is called.
C16_EnsureIdempotent ==
    /\ [](CountOf(mem.collections, CollectionName) <= 1)
    /\ [][MemStep("ensure") =>
            LET c == mem'.last
            IN  /\ mem'.points = mem.points
                /\ CollectionName \in Range(mem.collections)
                      => mem'.collections = mem.collections
                /\ c.fail = {} =>
                      /\ ~c.warned
                      /\ CountOf(mem'.collections, CollectionName) = 1
                /\ c.warned <=> CheckFails(mem, c)]_vars

C16_Witness ==
    /\ mem.last.op = "ensure"
    /\ mem.last.prev = "ensure"
    /\ mem.last.fail = {}
    /\ ~mem.last.warned
    /\ mem.calls = 3
    /\ Len(mem.points) = 1
    /\ mem.collections = <<CollectionName>>

Constructions(p, kind) ==
    {i \in DOMAIN mem.constructed : mem.constructed[i] = [proc |-> p, kind |-> kind]}

\* C20: before the first call no client exists; in each process each client is
\* constructed at most once, by the first call that needs it; the handle a
\* process holds is the one constructed for it, every call uses it, and it is
\* never replaced.
C20_LazySingletons ==
    /\ [](/\ mem.calls = 0 =>
                /\ mem.constructed = << >>
                /\ \A p \in Procs : mem._openai_client[p] = NoClient
                /\ \A p \in Procs : mem._qdrant_client[p] = NoClient
          /\ \A p \in Procs :
                /\ Cardinality(Constructions(p, "openai")) <= 1
                /\ Cardinality(Constructions(p, "qdrant")) <= 1
                /\ mem._openai_client[p] # NoClient
                      => Constructions(p, "openai") = {mem._openai_client[p]}
                /\ mem._qdrant_client[p] # NoClient
                      => Constructions(p, "qdrant") = {mem._qdrant_client[p]}
                /\ mem._openai_client[p] = NoClient => Constructions(p, "openai") = {}
                /\ mem._qdrant_client[p] = NoClient => Constructions(p, "qdrant") = {}
          /\ mem.last.op # "none" =>
                /\ mem.last.qdrant # NoClient
                /\ mem.last.qdrant = mem._qdrant_client[mem.last.proc]
                /\ mem.last.openai \in {NoClient, mem._openai_client[mem.last.proc]}
          /\ (mem.last.op \in {"save", "recall"} /\ "OpenAI" \notin mem.last.fail) =>
                /\ mem.last.openai # NoClient
                /\ mem.last.openai = mem._openai_client[mem.last.proc])
    /\ [][\A p \in Procs :
            /\ mem._openai_client[p] # NoClient
                  => mem'._openai_client[p] = mem._openai_client[p]
            /\ mem._qdrant_client[p] # NoClient
                  => mem'._qdrant_client[p] = mem._qdrant_client[p]
            /\ IsPrefix(mem.constructed, mem'.constructed)]_vars

C20_Witness ==
    /\ mem.calls = 3
    /\ Len(mem.constructed) = 2
    /\ mem._openai_client["worker"] # NoClient
    /\ mem._qdrant_client["worker"] # NoClient
    /\ mem.last.proc = "worker"
    /\ mem.last.prev = "save"
    /\ mem.last.op = "recall"
    /\ Len(mem.points) = 2

\* ------------------------------------------------------------ session claims
\* a step of the session store made by the call `op`
StoreStep(op) == ops' = ops + 1 /\ store'.last.op = op

\* C17: the items stored under a session id are never removed or reordered, only
\* extended at the end; a turn or a read sees exactly the items stored under
\* the id of its session, in the order they were added; a turn adds its items,
\* in order, to the history of its own session id and to no other; a session
\* created with a given id carries that id, so a session created again with an
\* id that exists sees the history stored under it.
C17_SessionContinuityIsolation ==
    /\ [](\A h \in store.sessions : h.session_id \in AllSessionIds)
    /\ [][/\ \A id \in AllSessionIds : IsPrefix(store.history[id], store'.history[id])
          /\ StoreStep("turn") =>
                LET c == store'.last
                IN  /\ c.read = store.history[c.session_id]
                    /\ store'.history[c.session_id] = store.history[c.session_id] \o c.added
                    /\ \A id \in AllSessionIds \ {c.session_id} :
                          store'.history[id] = store.history[id]
          /\ StoreStep("read") =>
                /\ store'.last.read = store.history[store'.last.session_id]
                /\ store'.history = store.history
          /\ StoreStep("create_session") =>
                LET c == store'.last
                IN  /\ store'.history = store.history
                    /\ c.requested # NoSessionId => c.session_id = c.requested
                    /\ c.requested = NoSessionId =>
                          /\ c.session_id \in GeneratedSessionIds
                          /\ store.history[c.session_id] = << >>
                    /\ c.read = store.history[c.session_id]
                    /\ sm'._current_session_id = c.session_id
                    /\ \E h \in store'.sessions : h.session_id = c.session_id
          /\ StoreStep("none") => store'.history = store.history]_vars

C17_Witness ==
    /\ store.last.op = "create_session"
    /\ store.last.requested = "s_a"
    /\ Len(store.last.read) = 3
    /\ store.last.read[1].at < store.last.read[3].at
    /\ store.history["s_b"] # << >>
    /\ Cardinality(store.sessions) >= 2

\* ------------------------------------------------------- more pipeline claims
\* a step taken inside one invocation of process_user_input that does not
\* end main()'s chat loop
WithinInvocation ==
    /\ turn' = turn
    /\ pc \in {"stream", "handoff"}
    /\ pc' \in {"stream", "handoff", "loop"}

\* the event handled by a step of the event loop
EventStep == turn' = turn /\ pc = "stream" /\ Len(events') = Len(events) + 1

\* C22: inside one invocation neither flag goes from true to false; an
\* invocation starts with both flags false, an empty buffer and nothing but the
\* banner printed, whatever the flags of the earlier turn were; in every turn a
\* flag is set exactly when an event of its channel has been handled, and then
\* the open marker of the channel stands in the output of that turn.
C22_FlagsMonotonicPerInvocation ==
    /\ [](/\ reasoning_started <=> ReasoningEvents # {}
          /\ response_started <=> AnswerEvents # {}
          /\ reasoning_started <=> Positions("reasoning_open") # {}
          /\ response_started <=> Positions("response_open") # {})
    /\ [][/\ WithinInvocation =>
                /\ reasoning_started => reasoning_started'
                /\ response_started => response_started'
          /\ turn' # turn =>
                /\ ~reasoning_started' /\ ~response_started'
                /\ agent_response_text' = << >>
                /\ out' = <<Banner>>
                /\ events' = << >>]_vars

\* the second turn has opened both channels after a first turn whose answer was
\* handed off
C22_Witness ==
    /\ turn = 2
    /\ workers # << >>
    /\ reasoning_started /\ response_started
    /\ Len(events) = 2

\* C23: handling an event that is neither a reasoning delta nor an answer delta
\* changes neither flag, nor the buffer, nor the output.
C23_OtherEventsChangeNothing ==
    [][(EventStep /\ ~IsReasoningDelta(events'[Len(events')])
                  /\ ~IsAnswerDelta(events'[Len(events')])) =>
            UNCHANGED <<reasoning_started, response_started, agent_response_text, out>>]_vars

\* an event without data, an event that is no raw response event and a raw
\* event of another type were handled after a reasoning delta
C23_Witness ==
    /\ Len(events) = 3
    /\ IsReasoningDelta(events[1])
    /\ events[2].type = "raw_response_event" /\ ~events[2].hasData
    /\ events[3].type # "raw_response_event"
    /\ reasoning_started /\ ~response_started
    /\ Len(out) = 3

\* C24: a turn whose stream raised makes no hand-off and starts no worker,
\* whatever answer text it had accumulated; a hand-off is made only by a turn
\* whose stream completed; the next turn starts with an empty buffer.
C24_NoHandoffAfterStreamError ==
    /\ [](streamStatus = "raised" => handoffs = << >>)
    /\ [](handoffs # << >> => streamStatus = "completed")
    /\ [][/\ (streamStatus' = "raised" /\ streamStatus # "raised") =>
                /\ workers' = workers
                /\ handoffs' = << >>
          /\ (streamStatus = "raised" /\ turn' = turn) => Len(workers') = Len(workers)
          /\ Len(handoffs') > Len(handoffs) => streamStatus = "completed"
          /\ turn' # turn => agent_response_text' = << >>]_vars

\* the stream raised after the answer text "x" had been accumulated
C24_Witness ==
    /\ streamStatus = "raised"
    /\ Strip(full_response) # << >>
    /\ handoffs = << >>
    /\ pc = "loop"

FirstAnswerEvent == CHOOSE k \in AnswerEvents : \A j \in AnswerEvents : k <= j

\* C25: the reasoning-closed marker is printed only while the first answer delta
\* of the turn is handled; a turn without answer delta prints none; a reasoning
\* channel opened after the response channel is never closed; every reasoning
\* payload is printed as reasoning text while its event is handled, also after
\* the response channel has opened.
C25_CloseOnlyAtFirstAnswerDelta ==
    /\ \A c \in Positions("reasoning_close") :
          /\ AnswerEvents # {}
          /\ out[c].ev = FirstAnswerEvent
          /\ \E r \in Positions("reasoning_open") : r < c
    /\ AnswerEvents = {} => Positions("reasoning_close") = {}
    /\ \A r \in Positions("reasoning_open"), a \in Positions("response_open") :
          a < r => Positions("reasoning_close") = {}
    /\ \A k \in ReasoningEvents :
          HasPayload(events[k]) =>
              \E i \in DOMAIN out :
                  /\ out[i] = ReasoningText(events[k].delta, k)

\* reasoning opened after the response channel and its text was printed, then
\* another answer delta was handled
C25_Witness ==
    /\ Len(events) = 3
    /\ IsAnswerDelta(events[1])
    /\ IsReasoningDelta(events[2]) /\ HasPayload(events[2])
    /\ IsAnswerDelta(events[3])
    /\ \E i \in DOMAIN out : out[i] = ReasoningText(events[2].delta, 2)
    /\ Positions("reasoning_close") = {}

EmptyDeltaEvents ==
    {k \in ReasoningEvents \cup AnswerEvents : ~HasPayload(events[k])}

\* C26: a delta event whose payload is empty or absent prints no payload text
\* and adds nothing to the buffer, but it opens its channel like any other: the
\* open marker is printed while the first event of a channel is handled, payload
\* or not; a completed turn whose answer deltas all have empty payloads shows
\* the response-open marker and makes no hand-off.
C26_EmptyPayloadStillOpens ==
    /\ \A k \in EmptyDeltaEvents :
          \A i \in DOMAIN out :
              out[i].ev = k => out[i].kind \notin {"reasoning_text", "response_text"}
    /\ Len(agent_response_text) = Cardinality({k \in AnswerEvents : HasPayload(events[k])})
    /\ \A k \in ReasoningEvents :
          (\A j \in ReasoningEvents : k <= j) =>
              /\ reasoning_started
              /\ \E i \in DOMAIN out : out[i] = ReasoningOpen(k)
    /\ \A k \in AnswerEvents :
          (\A j \in AnswerEvents : k <= j) =>
              /\ response_started
              /\ \E i \in DOMAIN out : out[i] = ResponseOpen(k)
    /\ (AnswerEvents # {} /\ AnswerEvents \subseteq EmptyDeltaEvents) =>
          /\ Positions("response_open") # {}
          /\ Positions("response_text") = {}
          /\ agent_response_text = << >>
          /\ handoffs = << >>
          /\ pc # "handoff"

\* a completed turn whose only delta events were a reasoning delta without
\* payload and an answer delta with an empty payload
C26_Witness ==
    /\ streamStatus = "completed"
    /\ pc = "loop"
    /\ Len(events) = 2
    /\ IsReasoningDelta(events[1]) /\ ~events[1].hasDelta
    /\ IsAnswerDelta(events[2]) /\ events[2].hasDelta /\ events[2].delta = << >>
    /\ Positions("reasoning_open") # {}
    /\ Positions("response_open") # {}
    /\ handoffs = << >>

\* ----------------------------------------------------------------- tool claims
ToolStep(name) == tool'.calls = tool.calls + 1 /\ tool'.last.tool = name

UrlSet == ~EnvFalsy(Getenv(env, "DATABASE_URL"))

\* C28: every call of the SQL tool and of the shell tool returns a text and
\* raises nothing: the SQL tool the missing-URL text without DATABASE_URL, the
\* SQL error text when connecting, the query or the close fails, and the result
\* text otherwise; the shell tool the timeout text after a timeout, the system
\* error text after another exception, and otherwise the output with the return
\* code; a connection is opened only by a SQL call that has a URL and can
\* connect, and no connection is open once the call that opened it has returned.
C28_ToolsReturnText ==
    /\ [](/\ tool.last.tool # "none" =>
                /\ ~tool.last.result.raised
                /\ tool.last.result.text # << >>
          /\ \A i \in DOMAIN tool.conns : tool.conns[i] # "open")
    /\ [][/\ ToolStep("sql") =>
                LET c == tool'.last
                    connected == UrlSet /\ "connect" \notin c.fault
                IN  /\ Len(tool'.conns) = Len(tool.conns) + (IF connected THEN 1 ELSE 0)
                    /\ \A i \in DOMAIN tool.conns : tool'.conns[i] = tool.conns[i]
                    /\ ~UrlSet => c.result = NoUrlError
                    /\ (UrlSet /\ c.fault # {}) => c.result = SqlError
                    /\ (UrlSet /\ c.fault = {}) =>
                          c.result \in {NoData, Executed} \cup {Formatted(n) : n \in RowCounts}
                    /\ (connected /\ "close" \notin c.fault)
                          => tool'.conns[Len(tool'.conns)] = "closed"
          /\ ToolStep("shell") =>
                LET c == tool'.last
                IN  /\ tool'.conns = tool.conns
                    /\ c.outcome.kind = "TimeoutExpired"
                          => c.result = Text(<<"Command timed out after 30 seconds: ">>)
                    /\ c.outcome.kind \in {"OSError", "ValueError"}
                          => c.result = Text(<<"System error executing command: ">>)
                    /\ (c.outcome.kind = "completed" /\ c.outcome.returncode # 0)
                          => c.result.text[Len(c.result.text)]
                                = "Command exited with return code: "]_vars

\* a SQL call whose query failed on an open connection, after a shell call
C28_Witness ==
    /\ tool.calls = 2
    /\ tool.last.tool = "sql"
    /\ tool.last.fault = {"query"}
    /\ tool.last.result = SqlError
    /\ tool.conns = <<"closed">>

\* ------------------------------------------------------- memory and sessions
\* C21: a stored record holds an id, a vector, a text and a timestamp and no
\* session id; starting a session changes nothing in the memory subsystem; a
\* recall in which nothing fails lists a stored record whenever fewer than
\* `limit` other records score at least as high, whichever session was current
\* when the record was saved and whichever process saved it, so a recall with a
\* limit that is not below the number of records lists them all.
C21_MemoryIsGlobal ==
    /\ [](/\ Len(savedUnder) = Len(mem.points)
          /\ \A k \in DOMAIN mem.points :
                DOMAIN mem.points[k] = {"id", "vector", "content", "timestamp"})
    /\ [][/\ sm' # sm => mem' = mem
          /\ (MemStep("save") \/ MemStep("recall")) => sm' = sm
          /\ (MemStep("recall") /\ mem'.last.fail = {}) =>
                LET c == mem'.last
                    AsHigh(k) == {j \in DOMAIN mem.points \ {k} :
                                    ScoreOf(mem.points[j], c) >= ScoreOf(mem.points[k], c)}
                IN  /\ \A k \in DOMAIN mem.points :
                          Cardinality(AsHigh(k)) < c.limit => mem.points[k].id \in HitIds(c)
                    /\ c.limit >= Len(mem.points) => HitIds(c) = Ids(mem.points)]_vars

\* the main process, under session s_b, recalls the record that the worker
\* process saved while session s_a was current
C21_Witness ==
    /\ mem.calls = 2
    /\ mem.last.op = "recall"
    /\ mem.last.proc = "main"
    /\ mem._openai_client["worker"] # NoClient
    /\ Len(mem.points) = 1
    /\ savedUnder = <<"s_a">>
    /\ sm._current_session_id = "s_b"
    /\ mem.points[1].id \in HitIds(mem.last)

\* ------------------------------------------------ concurrent memory calls
\* C27: whatever the interleaving of the check and create steps of the two
\* processes, once a process is past _ensure_collection_exists there is exactly
\* one collection named "memory" and no exception has left
\* _ensure_collection_exists, and the save_memory or recall_memory that it
\* then completes does not return a failure string.
C27_EnsureRaceIsHarmless ==
    /\ [](\A p \in Procs :
             race[p].pc \in {"ensured", "done"} =>
                /\ Cardinality({i \in DOMAIN mem.collections :
                                   mem.collections[i] = CollectionName}) = 1
                /\ ~race[p].escaped)
    /\ [][\A p \in Procs :
             (race[p].pc # "done" /\ race'[p].pc = "done") =>
                /\ mem'.last.proc = p
                /\ mem'.last.result \notin {SaveFailed, RecallFailed}]_vars

\* both processes found no collection, one of them lost the creation and
\* printed the warning, and both calls have completed
C27_Witness ==
    /\ mem.calls = 2
    /\ \A p \in Procs : race[p].pc = "done"
    /\ \E p \in Procs : race[p].warned
    /\ Len(mem.points) = 1
    /\ Len(mem.collections) = 1

====
